---- MODULE Spec2Model ----
(***************************************************************************)
(* A model of the Nachos hierarchical file system of this repository:      *)
(*   - Directory (src/filesys/directory.cc): a fixed table of entries,     *)
(*     with path lookup (Find), Add and Remove over nested directories;    *)
(*   - FileHeader (src/filesys/filehdr.cc): Allocate / Deallocate of the   *)
(*     index and data sectors of a file out of the free-sector bitmap.     *)
(* Strings are sequences of one-character strings, so that the path        *)
(* parsing of the code (the scan for '/', the split at the last '/', the   *)
(* length-bounded compare and copy) is computed as the code computes it.   *)
(***************************************************************************)
EXTENDS Integers, Sequences, FiniteSets, TLC

(***************************************************************************)
(* Bounds of the model and constants of the program.                       *)
(***************************************************************************)
\* tableSize / NumDirEntries: the capacity M of every directory table.
NumDirEntries == 2
\* header sectors an Add may name as newSector (each holds a directory file).
NumDirSectors == 2
\* longest path, in components, that is given to Add / Remove.
MaxDepth == 2
\* number of state-changing directory operations in one run.
MaxOps == 2
\* FileNameMaxLen: the bound of strncmp / strncpy on entry names.
FileNameMaxLen == 9
\* sizeof(File): the local buffer "char File[9]" of Add and Remove.
FileBufLen == 9

\* NumSectors: the number of sectors of the disk.
NumSectors == 6
\* SectorSize: the bytes of one sector.
SectorSize == 2
\* SectorNumPerList: the sector numbers one index sector holds (L).
SectorNumPerList == 2
\* largest fileSize given to Allocate.
MaxFileSize == 8
\* number of file headers that share the free map.
NumHdrs == 2
\* number of Allocate / Deallocate calls in one run.
MaxHdrOps == 3

Sectors == 1..NumDirSectors
Types == {"F", "D"}
Slots == 0..(NumDirEntries - 1)

(***************************************************************************)
(* Strings.                                                                *)
(***************************************************************************)
Min(S) == CHOOSE x \in S : \A y \in S : x <= y
Max(S) == CHOOSE x \in S : \A y \in S : x >= y

\* the first n characters of the NUL-terminated string s
Prefix(s, n) == SubSeq(s, 1, IF Len(s) < n THEN Len(s) ELSE n)

\* !strncmp(a, b, n): a and b agree on their first n characters
StrnEq(a, b, n) == Prefix(a, n) = Prefix(b, n)

\* a name of exactly n characters, all "a" but the last one
LongName(n, c) == [i \in 1..n |-> IF i = n THEN c ELSE "a"]

\* the leaf names the operations are tried on: the empty name, two short
\* names, and two over-long names that agree on their first FileNameMaxLen
\* characters
Components ==
    { <<>>, <<"a">>, <<"b">>,
      LongName(FileNameMaxLen + 1, "a"), LongName(FileNameMaxLen + 1, "b") }

\* the name of the subdirectories the nested paths go through
DirName == <<"a">>

\* "/a/a/...": the path of the directory k levels below the current one
RECURSIVE DirPath(_)
DirPath(k) == IF k = 0 THEN <<>> ELSE <<"/">> \o DirName \o DirPath(k - 1)

\* absolute paths: a leaf in the current directory or in a nested one
Paths == { DirPath(k) \o <<"/">> \o c : k \in 0..(MaxDepth - 1), c \in Components }

(***************************************************************************)
(* Directory tables.                                                       *)
(***************************************************************************)
\* an entry after memset(table, 0, ...) and inUse = FALSE
ZeroEntry == [inUse |-> FALSE, name |-> <<>>, sector |-> 0, type |-> "NUL"]

\* Directory::Directory(size)
EmptyTable == [i \in Slots |-> ZeroEntry]

\* new OpenFile(sector); new Directory(NumDirEntries); FetchFrom(file)
FetchFrom(dsk, sector) == dsk[sector]

\* a call that forgets nextDir->WriteBack(nextDirectory)
WriteBackForgotten(dsk, sector, t) == dsk

\* WriteBack(file) of table t to the directory file whose header is at sector
WriteBack(dsk, sector, t) == [dsk EXCEPT ![sector] = t]

\* Directory::FindIndex: the first in-use slot whose name matches
FindIndex(t, name) ==
    LET hits == { i \in Slots : t[i].inUse /\ StrnEq(t[i].name, name, FileNameMaxLen) }
    IN  IF hits = {} THEN -1 ELSE Min(hits)

\* position of the first '/' of s, 0 if there is none
FirstSlash(s) ==
    LET at == { k \in 1..Len(s) : s[k] = "/" }
    IN  IF at = {} THEN 0 ELSE Min(at)

\* position of the last '/' of s (the loop from len-1 down to 0)
LastSlash(s) == Max({ k \in 1..Len(s) : s[k] = "/" })

\* Directory::Find on the table t, with the disk dsk below it
RECURSIVE Find(_, _, _)
Find(t, dsk, name) ==
    LET rest == Tail(name)
        k == FirstSlash(rest)
        localName == IF k = 0 THEN rest ELSE SubSeq(rest, 1, k - 1)
        findNext == k # 0
        i == FindIndex(t, localName)
    IN  IF i # -1
        THEN IF findNext
             THEN Find(FetchFrom(dsk, t[i].sector), dsk, SubSeq(rest, k, Len(rest)))
             ELSE t[i].sector
        ELSE -1

\* the bytes after the final '/': what the loop copies into File
LeafOf(name) == SubSeq(name, LastSlash(name) + 1, Len(name))

\* the bytes before the final '/': what the loop copies into Path
ParentOf(name) == SubSeq(name, 1, LastSlash(name) - 1)

\* a loop that stops one slot early: for (i = 0; i < tableSize - 1; i++)
FirstFreeShortLoop(t) ==
    LET free == { i \in Slots : ~t[i].inUse /\ i < NumDirEntries - 1 }
    IN  IF free = {} THEN -1 ELSE Min(free)

\* a search for a slot that does not look at inUse
FirstFreeIgnoresInUse(t) == Min(Slots)

\* the first slot with inUse = FALSE, -1 if the table is full
FirstFree(t) ==
    LET free == { i \in Slots : ~t[i].inUse }
    IN  IF free = {} THEN -1 ELSE Min(free)

\* a removal that leaves the slot in use
ClearSlotForgotten(t, id) == t

\* table[id].inUse = false
ClearSlot(t, id) == [t EXCEPT ![id].inUse = FALSE]

\* the four assignments of the insertion loop
Insert(t, i, file, newSector, inType) ==
    [t EXCEPT ![i] = [inUse |-> TRUE, name |-> Prefix(file, FileNameMaxLen),
                      sector |-> newSector, type |-> inType]]

(***************************************************************************)
(* State.                                                                  *)
(***************************************************************************)
VARIABLES
    table,      \* the in-memory table of the directory the calls are made on
    disk,       \* disk[s]: the table stored in the directory file with header s
    last,       \* the last call: its arguments, its result, the sector it opened
    preTable,   \* table as it was when the last call started
    preDisk,    \* disk as it was when the last call started
    aborted,    \* the process was aborted (a failed ASSERT, a crash)
    nops,       \* number of calls so far that changed a table
    rootFile,   \* the table stored in the file the current directory is kept in
    freeMap,    \* the sectors whose bit is set in the free map
    hdr,        \* hdr[h]: the in-memory file header h
    sdisk,      \* sdisk[s]: the sector numbers stored in sector s
    hlast,      \* the last header call, with the state it started from
    hprev,      \* the header call before it
    hops,       \* number of header calls so far
    live,       \* the headers a successful Allocate filled, not deallocated since
    bts         \* the last ByteToSector call, if it is the last header call

dirVars == <<table, disk, last, preTable, preDisk, nops, rootFile>>

hdrVars == <<freeMap, hdr, sdisk, hlast, hprev, hops, live, bts>>

NoCall == [op |-> "none", path |-> <<>>, sector |-> 0, type |-> "NUL",
           result |-> "none", opened |-> {}, written |-> FALSE]

\* one way a call can end: the tables it leaves, what it returns ("TRUE",
\* "FALSE", or "abort" when the process does not survive it), and the header
\* sectors it handed to OpenFile
Outcome(t, dsk, r, o) == [table |-> t, disk |-> dsk, result |-> r, opened |-> o]

\* OpenFile(-1) followed by FetchFrom: the read of a sector that does not
\* exist is undefined; the process is aborted, or the call goes on with
\* whatever the read left in the table and ends either way
BadSector(t, dsk) == { Outcome(t, dsk, r, {-1}) : r \in {"abort", "TRUE", "FALSE"} }

\* the insertion into the directory found at Path, or into the current table
AddInsert(t, dsk, name, newSector, inType) ==
    LET file == LeafOf(name)
        path == ParentOf(name)
    IN  IF path # <<>>
        THEN LET sector == Find(t, dsk, path)
             IN  IF sector = -1
                 THEN BadSector(t, dsk)
                 ELSE LET nextDir == FetchFrom(dsk, sector)
                          i == FirstFree(nextDir)
                      IN  IF i # -1
                          THEN { Outcome(t, WriteBack(dsk, sector,
                                            Insert(nextDir, i, file, newSector, inType)),
                                         "TRUE", {sector}) }
                          ELSE { Outcome(t, dsk, "FALSE", {sector}) }
        ELSE LET i == FirstFree(t)
             IN  IF i # -1
                 THEN { Outcome(Insert(t, i, file, newSector, inType), dsk, "TRUE", {}) }
                 ELSE { Outcome(t, dsk, "FALSE", {}) }

\* the copy of the leaf into File[FileBufLen] writes past the buffer when the
\* leaf is longer: the write is undefined, the call either goes on with the
\* bytes it copied or the process is aborted
Overflow(name) == Len(LeafOf(name)) > FileBufLen

\* an Add without the test "if (Find(name) != -1) return FALSE"
AddOutcomesNoCheck(t, dsk, name, newSector, inType) ==
    AddInsert(t, dsk, name, newSector, inType)
    \cup (IF Overflow(name) THEN { Outcome(t, dsk, "abort", {}) } ELSE {})

\* an Add that tests the whole path in the current table, as Remove does:
\* if (FindIndex(name) != -1) return FALSE
AddOutcomesIndexCheck(t, dsk, name, newSector, inType) ==
    IF FindIndex(t, name) # -1
    THEN { Outcome(t, dsk, "FALSE", {}) }
    ELSE AddInsert(t, dsk, name, newSector, inType)
         \cup (IF Overflow(name) THEN { Outcome(t, dsk, "abort", {}) } ELSE {})

\* Directory::Add
AddOutcomes(t, dsk, name, newSector, inType) ==
    IF Find(t, dsk, name) # -1
    THEN { Outcome(t, dsk, "FALSE", {}) }
    ELSE AddInsert(t, dsk, name, newSector, inType)
         \cup (IF Overflow(name) THEN { Outcome(t, dsk, "abort", {}) } ELSE {})

\* the removal from the directory found at Path, or from the current table
RemoveClear(t, dsk, name) ==
    LET file == LeafOf(name)
        path == ParentOf(name)
    IN  IF path # <<>>
        THEN LET sector == Find(t, dsk, path)
             IN  IF sector = -1
                 THEN BadSector(t, dsk)
                 ELSE LET nextDir == FetchFrom(dsk, sector)
                          id == FindIndex(nextDir, file)
                      IN  IF id = -1
                          THEN { Outcome(t, dsk, "FALSE", {sector}) }
                          ELSE { Outcome(t, WriteBack(dsk, sector,
                                            ClearSlot(nextDir, id)),
                                         "TRUE", {sector}) }
        \* this->FindIndex(name): the whole path, not File, is looked up
        ELSE LET id == FindIndex(t, name)
             IN  IF id = -1
                 THEN { Outcome(t, dsk, "FALSE", {}) }
                 ELSE { Outcome(ClearSlot(t, id), dsk, "TRUE", {}) }

\* a Remove without the test "if (Find(name) == -1) return FALSE"
RemoveOutcomesNoCheck(t, dsk, name) ==
    RemoveClear(t, dsk, name)
    \cup (IF Overflow(name) THEN { Outcome(t, dsk, "abort", {}) } ELSE {})

\* Directory::Remove
RemoveOutcomes(t, dsk, name) ==
    IF Find(t, dsk, name) = -1
    THEN { Outcome(t, dsk, "FALSE", {}) }
    ELSE RemoveClear(t, dsk, name)
         \cup (IF Overflow(name) THEN { Outcome(t, dsk, "abort", {}) } ELSE {})

\* the current table after Add("/a", 1, 'D')
RootWithDir ==
    [EmptyTable EXCEPT ![0] = [inUse |-> TRUE, name |-> DirName, sector |-> 1, type |-> "D"]]

\* the table of a directory after Add of "a" and "b" into it and Remove of
\* "a": slot 0 is free and keeps the bytes of the removed entry
UsedTable ==
    [i \in Slots |->
        IF i = 0 THEN [inUse |-> FALSE, name |-> <<"a">>, sector |-> 2, type |-> "F"]
        ELSE IF i = 1 THEN [inUse |-> TRUE, name |-> <<"b">>, sector |-> 2, type |-> "F"]
        ELSE ZeroEntry]

FormattedDisk == [s \in Sectors |-> EmptyTable]

\* the states the calls start from: the directory after format (an empty
\* current table, every directory file holding an empty table); the same
\* with the subdirectory "/a" at sector 1; the same after some calls in "/a"
DirStarts ==
    { [table |-> EmptyTable, disk |-> FormattedDisk],
      [table |-> RootWithDir, disk |-> FormattedDisk],
      [table |-> RootWithDir, disk |-> [FormattedDisk EXCEPT ![1] = UsedTable]] }

DirInit ==
    /\ \E st \in DirStarts :
         /\ table = st.table
         /\ disk = st.disk
         /\ preTable = st.table
         /\ preDisk = st.disk
         /\ rootFile = st.table
    /\ last = NoCall
    /\ nops = 0
    /\ aborted = FALSE

\* the directory part before any call
DirIdle ==
    /\ table = EmptyTable
    /\ disk = [s \in Sectors |-> EmptyTable]
    /\ last = NoCall
    /\ preTable = EmptyTable
    /\ preDisk = [s \in Sectors |-> EmptyTable]
    /\ rootFile = EmptyTable
    /\ nops = 0
    /\ aborted = FALSE

\* the call that ends with o stores into a table
Changes(o) == o.table # table \/ o.disk # disk

\* the call ends with o: the tables take its values, and the call, its
\* result and the tables it started from are kept for the properties
Finish(o, call) ==
    /\ Changes(o) => nops < MaxOps
    /\ table' = o.table
    /\ disk' = o.disk
    /\ last' = [call EXCEPT !.result = o.result, !.opened = o.opened]
    /\ preTable' = table
    /\ preDisk' = disk
    /\ aborted' = (o.result = "abort")
    /\ nops' = IF Changes(o) THEN nops + 1 ELSE nops
    /\ UNCHANGED rootFile

Add ==
    /\ ~aborted
    /\ \E name \in Paths, newSector \in Sectors, inType \in Types :
         \E o \in AddOutcomes(table, disk, name, newSector, inType) :
            Finish(o, [NoCall EXCEPT !.op = "Add", !.path = name,
                                     !.sector = newSector, !.type = inType])
    /\ UNCHANGED hdrVars

Remove ==
    /\ ~aborted
    /\ \E name \in Paths :
         \E o \in RemoveOutcomes(table, disk, name) :
            Finish(o, [NoCall EXCEPT !.op = "Remove", !.path = name])
    /\ UNCHANGED hdrVars

\* the caller of a call that returned TRUE writes the current directory back
\* to its file: directory->WriteBack(directoryFile)
WriteBackRoot ==
    /\ ~aborted
    /\ last.result = "TRUE"
    /\ ~last.written
    /\ rootFile' = table
    /\ last' = [last EXCEPT !.written = TRUE]
    /\ UNCHANGED <<table, disk, preTable, preDisk, nops, aborted>>
    /\ UNCHANGED hdrVars

(***************************************************************************)
(* File headers and the free-sector bitmap.                                *)
(***************************************************************************)
DiskSectors == 0..(NumSectors - 1)
HdrIds == 1..NumHdrs
FileSizes == 0..MaxFileSize

\* divRoundUp(n, s)
DivRoundUp(n, s) == (n + s - 1) \div s

\* the slots of dataSectorLists a file of MaxFileSize bytes needs
MaxLists == DivRoundUp(DivRoundUp(MaxFileSize, SectorSize), SectorNumPerList)

\* FileHeader::FileHeader: every field is -1
NewHeader == [numBytes |-> -1, numSectors |-> -1, numLists |-> -1,
              dataSectorLists |-> [i \in 0..(MaxLists - 1) |-> -1]]

\* memset(buffer, 0, sizeof(int)*SectorNumPerList)
ZeroBuffer == [j \in 0..(SectorNumPerList - 1) |-> 0]

\* Bitmap::NumClear; map is the set of the sectors whose bit is set
NumClear(map) == NumSectors - Cardinality(map)

\* Bitmap::FindAndSet: the first clear bit, -1 if there is none
FindAndSet(map) ==
    LET clear == DiskSectors \ map
    IN  IF clear = {} THEN -1 ELSE Min(clear)

\* the loop over j without the bit FindAndSet sets
RECURSIVE AllocDataNoSet(_, _, _, _)
AllocDataNoSet(map, buffer, j, n) ==
    IF j >= n
    THEN [map |-> map, buffer |-> buffer, ok |-> TRUE]
    ELSE LET s == FindAndSet(map)
         IN  IF s < 0
             THEN [map |-> map, buffer |-> buffer, ok |-> FALSE]
             ELSE AllocDataNoSet(map, [buffer EXCEPT ![j] = s], j + 1, n)

\* the loop over j of Allocate: n calls of FindAndSet, each stored in
\* buffer[j]; ok is FALSE when ASSERT(buffer[j] >= 0) fails
RECURSIVE AllocData(_, _, _, _)
AllocData(map, buffer, j, n) ==
    IF j >= n
    THEN [map |-> map, buffer |-> buffer, ok |-> TRUE]
    ELSE LET s == FindAndSet(map)
         IN  IF s < 0
             THEN [map |-> map, buffer |-> buffer, ok |-> FALSE]
             ELSE AllocData(map \cup {s}, [buffer EXCEPT ![j] = s], j + 1, n)

LastSectorNumOwn(nowNumSectors, numSectors) ==
    IF nowNumSectors + SectorNumPerList > numSectors
    THEN numSectors
    ELSE nowNumSectors + SectorNumPerList

\* lastSectorNum of Allocate: the bound it compares with is NumSectors, the
\* size of the disk, not the header's numSectors
LastSectorNumAlloc(nowNumSectors, numSectors) ==
    IF nowNumSectors + SectorNumPerList > NumSectors
    THEN NumSectors
    ELSE nowNumSectors + SectorNumPerList

\* the loop over i of Allocate, from list i on; st holds the free map, the
\* header's dataSectorLists and the disk's index sectors so far
RECURSIVE AllocLists(_, _, _)
AllocLists(st, i, hd) ==
    IF i >= hd.numLists
    THEN st
    ELSE LET s == FindAndSet(st.map)
             nowNumSectors == i * SectorNumPerList
             lists == [st.lists EXCEPT ![i] = s]
         IN  IF s < 0
             THEN [st EXCEPT !.lists = lists, !.ok = FALSE]
             ELSE LET n == LastSectorNumAlloc(nowNumSectors, hd.numSectors) - nowNumSectors
                      d == AllocData(st.map \cup {s}, ZeroBuffer, 0, n)
                  IN  IF ~d.ok
                      THEN [st EXCEPT !.map = d.map, !.lists = lists, !.ok = FALSE]
                      ELSE AllocLists([map |-> d.map, lists |-> lists,
                                       sd |-> [st.sd EXCEPT ![s] = d.buffer],
                                       ok |-> TRUE], i + 1, hd)

\* the test before the loop: "not enough space"
PreCheck(map, numSectors, numLists) == NumClear(map) < numSectors

\* FileHeader::Allocate on header hd: the header, the free map and the index
\* sectors it leaves, and "TRUE", "FALSE" or "abort" (a failed ASSERT)
AllocateResult(hd, map, sd, fileSize) ==
    LET numSectors == DivRoundUp(fileSize, SectorSize)
        numLists == DivRoundUp(numSectors, SectorNumPerList)
        h1 == [hd EXCEPT !.numBytes = fileSize, !.numSectors = numSectors,
                         !.numLists = numLists]
    IN  IF PreCheck(map, numSectors, numLists)
        THEN [hdr |-> h1, map |-> map, sd |-> sd, result |-> "FALSE"]
        ELSE LET st == AllocLists([map |-> map, lists |-> h1.dataSectorLists,
                                   sd |-> sd, ok |-> TRUE], 0, h1)
             IN  [hdr |-> [h1 EXCEPT !.dataSectorLists = st.lists],
                  map |-> st.map, sd |-> st.sd,
                  result |-> IF st.ok THEN "TRUE" ELSE "abort"]

\* the number of times the inner loop of Deallocate runs for list i: j goes
\* from 0 up to lastSectorNum, not up to lastSectorNum - nowNumSectors
DeallocIterations(hd, i) ==
    LET last1 == LastSectorNumOwn(i * SectorNumPerList, hd.numSectors)
    IN  IF last1 > 0 THEN last1 ELSE 0

RECURSIVE DeallocTotal(_, _)
DeallocTotal(hd, i) ==
    IF i >= hd.numLists THEN 0 ELSE DeallocIterations(hd, i) + DeallocTotal(hd, i + 1)

\* FileHeader::Deallocate on header hd.  The buffer (declared "int buffer",
\* used as the int* that new int[] returns) is never read from the index
\* sector: every buffer[j] is an uninitialized value.  Each iteration either
\* finds the bit of that value set and clears it, or fails its ASSERT; so the
\* call clears some set C of bits that were set, one per iteration that
\* passed, and is aborted unless every iteration passed.  The bits of the
\* index sectors dataSectorLists[i] are not touched.
DeallocateResults(hd, map) ==
    LET total == DeallocTotal(hd, 0)
    IN  { [map |-> map \ C,
           result |-> IF Cardinality(C) = total THEN "done" ELSE "abort"] :
          C \in { D \in SUBSET map : Cardinality(D) <= total } }

NoHdrCall == [op |-> "none", h |-> 0, size |-> 0, result |-> "none",
              preMap |-> {}, preHdr |-> NewHeader]

\* ByteToSector reading the first index sector whatever the offset
ByteToSectorFirstList(hd, sd, offset) ==
    LET sectorIdx == offset \div SectorSize
        idxInList == sectorIdx % SectorNumPerList
        buf == sd[hd.dataSectorLists[0]]
    IN  buf[idxInList]

\* FileHeader::ByteToSector: the slot of the index sector the offset falls in
ByteToSector(hd, sd, offset) ==
    LET sectorIdx == offset \div SectorSize
        listIdx == sectorIdx \div SectorNumPerList
        idxInList == sectorIdx % SectorNumPerList
        buf == sd[hd.dataSectorLists[listIdx]]
    IN  buf[idxInList]

NoByteToSector == [op |-> "none", h |-> 0, offset |-> 0, sector |-> 0]

\* any free map; fresh headers; zeroed sectors
HdrInit ==
    /\ freeMap \in SUBSET DiskSectors
    /\ hdr = [h \in HdrIds |-> NewHeader]
    /\ sdisk = [s \in DiskSectors |-> ZeroBuffer]
    /\ hlast = NoHdrCall
    /\ hprev = NoHdrCall
    /\ hops = 0
    /\ live = {}
    /\ bts = NoByteToSector

\* the header part before any call, with an empty free map
HdrIdle ==
    /\ freeMap = {}
    /\ hdr = [h \in HdrIds |-> NewHeader]
    /\ sdisk = [s \in DiskSectors |-> ZeroBuffer]
    /\ hlast = NoHdrCall
    /\ hprev = NoHdrCall
    /\ hops = 0
    /\ live = {}
    /\ bts = NoByteToSector

Allocate ==
    /\ ~aborted
    /\ hops < MaxHdrOps
    /\ \E h \in HdrIds, fileSize \in FileSizes :
         LET r == AllocateResult(hdr[h], freeMap, sdisk, fileSize)
         IN  /\ hdr' = [hdr EXCEPT ![h] = r.hdr]
             /\ freeMap' = r.map
             /\ sdisk' = r.sd
             /\ hlast' = [op |-> "Allocate", h |-> h, size |-> fileSize,
                          result |-> r.result, preMap |-> freeMap, preHdr |-> hdr[h]]
             /\ aborted' = (r.result = "abort")
             /\ live' = IF r.result = "TRUE" THEN live \cup {h} ELSE live \ {h}
    /\ hprev' = hlast
    /\ hops' = hops + 1
    /\ bts' = NoByteToSector
    /\ UNCHANGED dirVars

Deallocate ==
    /\ ~aborted
    /\ hops < MaxHdrOps
    /\ \E h \in HdrIds :
         \E r \in DeallocateResults(hdr[h], freeMap) :
            /\ freeMap' = r.map
            /\ hlast' = [op |-> "Deallocate", h |-> h, size |-> 0,
                         result |-> r.result, preMap |-> freeMap, preHdr |-> hdr[h]]
            /\ aborted' = (r.result = "abort")
            /\ live' = live \ {h}
    /\ hprev' = hlast
    /\ hops' = hops + 1
    /\ bts' = NoByteToSector
    /\ UNCHANGED <<hdr, sdisk>>
    /\ UNCHANGED dirVars

\* a caller reads the sector of a byte of a file whose header is allocated
ByteToSectorCall ==
    /\ ~aborted
    /\ hops < MaxHdrOps
    /\ \E h \in live :
         \E offset \in 0..(hdr[h].numBytes - 1) :
            bts' = [op |-> "ByteToSector", h |-> h, offset |-> offset,
                    sector |-> ByteToSector(hdr[h], sdisk, offset)]
    /\ hops' = hops + 1
    /\ UNCHANGED <<freeMap, hdr, sdisk, hlast, hprev, live, aborted>>
    /\ UNCHANGED dirVars

vars == <<dirVars, hdrVars, aborted>>

\* the directory calls, on a formatted disk
Init == DirInit /\ HdrIdle

Next == Add \/ Remove \/ WriteBackRoot

Spec == Init /\ [][Next]_vars

\* the file header calls, on any free map
InitHdr == HdrInit /\ DirIdle

NextHdr == Allocate \/ Deallocate \/ ByteToSectorCall

SpecHdr == InitHdr /\ [][NextHdr]_vars

(***************************************************************************)
(* The last directory call, as the claims speak of it.                     *)
(***************************************************************************)
LastLeaf == LeafOf(last.path)
LastParent == ParentOf(last.path)
TopLevel == LastParent = <<>>

\* Find(path) as it answered when the last call started, and as it answers now
FindBefore(path) == Find(preTable, preDisk, path)
FindNow(path) == Find(table, disk, path)

\* the parent-path of the last call is empty or resolved when the call started
ParentResolved == TopLevel \/ FindBefore(LastParent) # -1

\* the leaf of the last call is a short name: at most FileNameMaxLen bytes
ShortLeaf == Len(LastLeaf) <= FileNameMaxLen

\* the table the last call was aimed at, when the call started and now
TargetBefore == IF TopLevel THEN preTable ELSE preDisk[FindBefore(LastParent)]
TargetNow == IF TopLevel THEN table ELSE disk[FindBefore(LastParent)]

InUse(t) == { i \in Slots : t[i].inUse }

\* every table there is: the current one and the ones on the disk
AllTables == { table } \cup { disk[s] : s \in Sectors }

\* C1: if Add(p, s, t) returns success, for a top-level p or a nested p whose
\* parent resolves, then Find(p) called next on the same directory returns s.
C1_AddThenFind ==
    (last.op = "Add" /\ last.result = "TRUE" /\ ParentResolved)
        => FindNow(last.path) = last.sector

\* a nested Add has returned success and Find resolves its path to its sector
C1_Witness ==
    /\ last.op = "Add" /\ last.result = "TRUE"
    /\ ~TopLevel /\ FindBefore(LastParent) # -1
    /\ FindBefore(last.path) = -1
    /\ FindNow(last.path) = last.sector

\* C2: Remove(p) returns success whenever Find(p) resolves right before the
\* call, for a top-level path as for a nested one, and then the slot of the
\* leaf in the target table has in_use = false.  (Stated for short leaves.)
C2_RemoveWhenFound ==
    (last.op = "Remove" /\ ShortLeaf /\ FindBefore(last.path) # -1)
        => /\ last.result = "TRUE"
           /\ FindIndex(TargetNow, LastLeaf) = -1

\* C3: if Remove(p) returns success, Find(p) called next returns -1.
C3_RemoveThenFind ==
    (last.op = "Remove" /\ last.result = "TRUE") => FindNow(last.path) = -1

\* a Remove of a path that resolved has returned success
C3_Witness ==
    /\ last.op = "Remove" /\ last.result = "TRUE"
    /\ FindBefore(last.path) # -1
    /\ FindNow(last.path) = -1

\* C4: Add(p, s2, t) on a path that already resolves returns failure and
\* changes neither the current table nor any directory on the disk, so that
\* Find(p) still returns the sector of the first Add.
C4_AddExisting ==
    (last.op = "Add" /\ FindBefore(last.path) # -1)
        => /\ last.result = "FALSE"
           /\ table = preTable
           /\ disk = preDisk
           /\ FindNow(last.path) = FindBefore(last.path)

\* an Add of a path that resolved, with another sector, has returned failure
C4_Witness ==
    /\ last.op = "Add" /\ last.result = "FALSE"
    /\ FindBefore(last.path) # -1
    /\ last.sector # FindBefore(last.path)
    /\ FindNow(last.path) = FindBefore(last.path)

\* C5: Add(p, s, t) on a nested path whose parent-path does not resolve
\* returns failure: no entry is inserted in any table and no sector is
\* opened with the unresolved sector number -1.  (Stated for short leaves.)
C5_AddParentMissing ==
    (last.op = "Add" /\ ShortLeaf /\ ~TopLevel /\ FindBefore(LastParent) = -1)
        => /\ last.result = "FALSE"
           /\ table = preTable
           /\ disk = preDisk
           /\ -1 \notin last.opened

\* the leaf of the last call is distinct from every name in use in the table
\* the call was aimed at
DistinctLeaf == \A i \in InUse(TargetBefore) : TargetBefore[i].name # LastLeaf

C7_FindIndexOfEntry ==
    \A t \in AllTables : \A i \in InUse(t) : FindIndex(t, t[i].name) = i

\* a table with all its slots in use, the last of them filled by an Add that
\* took the slot a Remove had freed
C7_Witness ==
    /\ last.op = "Add" /\ last.result = "TRUE"
    /\ ~TopLevel /\ FindBefore(LastParent) # -1
    /\ \E i \in Slots : ~TargetBefore[i].inUse /\ TargetBefore[i].name # <<>>
    /\ Cardinality(InUse(TargetNow)) = NumDirEntries
    /\ \A i \in InUse(TargetNow) : FindIndex(TargetNow, TargetNow[i].name) = i

\* C15: Remove(p) of a path that does not resolve returns failure and
\* changes neither the current table nor any directory on the disk; and after
\* a successful Remove(p), Remove(p) applied again at once returns failure.
C15_RemoveUnresolved ==
    /\ (last.op = "Remove" /\ FindBefore(last.path) = -1)
          => /\ last.result = "FALSE"
             /\ table = preTable
             /\ disk = preDisk
    /\ (last.op = "Remove" /\ last.result = "TRUE")
          => \A o \in RemoveOutcomes(table, disk, last.path) :
                o = Outcome(table, disk, "FALSE", {})

\* starting with "/a" empty, an entry was added to it and removed, and the
\* Remove of the same path once more has returned failure
C15_Witness ==
    /\ last.op = "Remove" /\ last.result = "FALSE"
    /\ ~TopLevel /\ FindBefore(LastParent) = 1
    /\ FindBefore(last.path) = -1
    /\ nops = MaxOps
    /\ ~disk[1][0].inUse /\ disk[1][0].name = LastLeaf /\ LastLeaf # <<>>
    /\ \A i \in Slots \ {0} : disk[1][i] = ZeroEntry
    /\ table = preTable /\ disk = preDisk

\* C16: a successful Add places the new entry at the lowest index whose slot
\* is free in the target table; and in a full directory the Remove of the
\* entry at index k, for a top-level path as for a nested one, succeeds and
\* leaves k the index the next successful Add takes (capacity 2: Add /a,
\* Add /b, Add /c fails, Remove /a, Add /c succeeds at index 0).
C16_LowestFreeSlot ==
    /\ (last.op = "Add" /\ last.result = "TRUE" /\ ParentResolved)
          => LET i == FirstFree(TargetBefore)
             IN  /\ i # -1
                 /\ TargetNow[i].inUse
                 /\ TargetNow[i].sector = last.sector
    /\ (/\ last.op = "Remove" /\ ShortLeaf /\ ParentResolved
        /\ FindBefore(last.path) # -1
        /\ Cardinality(InUse(TargetBefore)) = NumDirEntries)
          => /\ last.result = "TRUE"
             /\ FirstFree(TargetNow) = FindIndex(TargetBefore, LastLeaf)

\* C17: after every successful Add, every in-use entry of every table has a
\* non-empty name; Add of a path whose leaf is empty ("/", "/a/") creates no
\* in-use entry with an empty name.
C17_NonEmptyNames ==
    \A t \in AllTables : \A i \in InUse(t) : t[i].name # <<>>

\* C18: a successful Add changes exactly one slot of exactly one table from
\* free to in use, a successful Remove exactly one slot from in use to free;
\* every other slot of that table and every slot of every other table (the
\* current table too, when the path has a parent) is unchanged, and Add
\* overwrites no slot that is in use.  (The Add is into a directory that
\* exists: the parent-path is empty or resolves.)
C18_FrameEffect ==
    /\ (last.op \in {"Add", "Remove"} /\ last.result = "TRUE" /\ ParentResolved)
          => /\ \E i \in Slots :
                  /\ TargetBefore[i].inUse = (last.op = "Remove")
                  /\ TargetNow[i].inUse = (last.op = "Add")
                  /\ \A j \in Slots \ {i} : TargetNow[j] = TargetBefore[j]
             /\ IF TopLevel
                THEN disk = preDisk
                ELSE /\ table = preTable
                     /\ \A s \in Sectors \ {FindBefore(LastParent)} :
                          disk[s] = preDisk[s]
    /\ (last.op = "Add" /\ ParentResolved)
          => /\ \A i \in InUse(preTable) : table[i] = preTable[i]
             /\ \A s \in Sectors : \A i \in InUse(preDisk[s]) :
                  disk[s][i] = preDisk[s][i]

\* a nested Add has filled the free slot of a directory that had a slot in
\* use, and the current table is as it was
C18_Witness ==
    /\ last.op = "Add" /\ last.result = "TRUE"
    /\ ~TopLevel /\ FindBefore(LastParent) # -1
    /\ InUse(TargetBefore) # {}
    /\ Cardinality(InUse(TargetNow)) = Cardinality(InUse(TargetBefore)) + 1
    /\ table = preTable
    /\ disk # preDisk

\* C19: Add of a path whose leaf is longer than FileNameMaxLen bytes succeeds
\* (the path does not resolve, its directory exists and has a free slot): it
\* stores the first FileNameMaxLen bytes of the leaf as the name and changes
\* nothing else; Find of the whole path then returns the new sector, and Add
\* of a path whose leaf has the same first FileNameMaxLen bytes fails.
C19_LongLeaf ==
    (/\ last.op = "Add" /\ ~ShortLeaf /\ ParentResolved
     /\ FindBefore(last.path) = -1
     /\ FirstFree(TargetBefore) # -1)
        => /\ last.result = "TRUE"
           /\ TargetNow[FirstFree(TargetBefore)].name = Prefix(LastLeaf, FileNameMaxLen)
           /\ FindNow(last.path) = last.sector
           /\ \A tail \in {<<>>, <<"b">>} :
                \A o \in AddOutcomes(table, disk,
                            LastParent \o <<"/">> \o Prefix(LastLeaf, FileNameMaxLen) \o tail,
                            last.sector, last.type) :
                   o.result = "FALSE" /\ o.table = table /\ o.disk = disk

\* C14 as stated: if Add(p, s, t) returns success on directory D, a directory
\* freshly constructed and loaded with FetchFrom from D's file, with no
\* further call by the caller, resolves Find(p) to s, and for a nested p the
\* freshly loaded parent directory holds the leaf with sector s.
C14_AddThenReload ==
    (last.op = "Add" /\ last.result = "TRUE" /\ ParentResolved)
        => /\ Find(rootFile, disk, last.path) = last.sector
           /\ ~TopLevel
                => LET parent == FetchFrom(disk, FindBefore(LastParent))
                       i == FindIndex(parent, LastLeaf)
                   IN  i # -1 /\ parent[i].sector = last.sector

\* C14 amended: if Add(p, s, t) returns success on D, then for a nested p the
\* freshly loaded parent directory holds the leaf with sector s at once, and
\* a directory freshly loaded from D's file resolves Find(p) to s once the
\* caller has written D back to its file (Add does not write the current
\* table itself).
C14_AddThenWriteBack ==
    (last.op = "Add" /\ last.result = "TRUE" /\ ParentResolved)
        => /\ last.written => Find(rootFile, disk, last.path) = last.sector
           /\ ~TopLevel
                => LET parent == FetchFrom(disk, FindBefore(LastParent))
                       i == FindIndex(parent, LastLeaf)
                   IN  i # -1 /\ parent[i].sector = last.sector

\* a top-level Add has returned success, the caller has written the directory
\* back, and the directory loaded from the file resolves the path, which the
\* file did not hold before
C14_Witness ==
    /\ last.op = "Add" /\ last.result = "TRUE" /\ TopLevel
    /\ last.written
    /\ FindBefore(last.path) = -1
    /\ Find(rootFile, disk, last.path) = last.sector

(***************************************************************************)
(* The last file header call, as the claims speak of it.                   *)
(***************************************************************************)
\* num_sectors = ceil(file_size / S) and num_lists = ceil(num_sectors / L)
NeedSectors(fileSize) == DivRoundUp(fileSize, SectorSize)
NeedLists(fileSize) == DivRoundUp(NeedSectors(fileSize), SectorNumPerList)

\* the bits the last call set, and the bits it cleared
BitsSet == freeMap \ hlast.preMap
BitsCleared == hlast.preMap \ freeMap

\* the data sectors list i of a file of n sectors holds: min(L, n - i*L)
ListLength(n, i) ==
    IF n - i * SectorNumPerList < SectorNumPerList
    THEN n - i * SectorNumPerList
    ELSE SectorNumPerList

\* C8: Allocate(free_map, file_size) returns failure whenever the free map
\* has fewer than num_sectors + num_lists clear bits, and then the header
\* fields and every bit of the free map are as before the call.
C8_AllocateDiskFull ==
    (hlast.op = "Allocate"
       /\ NumClear(hlast.preMap) < NeedSectors(hlast.size) + NeedLists(hlast.size))
        => /\ hlast.result = "FALSE"
           /\ hdr[hlast.h] = hlast.preHdr
           /\ freeMap = hlast.preMap

\* C9: a successful Allocate(free_map, file_size) sets exactly num_sectors +
\* num_lists bits that were clear: one index sector per list i, and in index
\* sector i exactly min(L, num_sectors - i*L) data sectors in the first
\* slots, the other slots being zero.
C9_AllocateExact ==
    (hlast.op = "Allocate" /\ hlast.result = "TRUE")
        => LET n == NeedSectors(hlast.size)
               k == NeedLists(hlast.size)
               lists == hdr[hlast.h].dataSectorLists
           IN  /\ Cardinality(BitsSet) = n + k
               /\ BitsCleared = {}
               /\ \A i \in 0..(k - 1) :
                    /\ lists[i] \in BitsSet
                    /\ \A j \in 0..(SectorNumPerList - 1) :
                         IF j < ListLength(n, i)
                         THEN sdisk[lists[i]][j] \in BitsSet
                         ELSE sdisk[lists[i]][j] = 0

\* C10: Allocate followed by Deallocate is bitmap-neutral: if Allocate(B, f)
\* succeeds and gives header h and bitmap B', Deallocate(B', h) gives a
\* bitmap equal to B on every sector.
C10_AllocateDeallocate ==
    (/\ hlast.op = "Deallocate" /\ hlast.result = "done"
     /\ hprev.op = "Allocate" /\ hprev.result = "TRUE" /\ hprev.h = hlast.h)
        => freeMap = hprev.preMap

\* the index sectors of header hd, and the data sectors its index sectors
\* hold in their valid slots, as read from the sectors sd
IndexSectors(hd) == { hd.dataSectorLists[i] : i \in 0..(hd.numLists - 1) }
DataSectors(hd, sd) ==
    UNION { { sd[hd.dataSectorLists[i]][j] :
                j \in 0..(ListLength(hd.numSectors, i) - 1) } :
            i \in 0..(hd.numLists - 1) }

\* C11: Deallocate(free_map) on a well-formed header (one a successful
\* Allocate has just filled) clears the bit of every data sector recorded in
\* the valid slots of its index sectors and the bit of every index sector
\* dataSectorLists[i], and no other bit.
C11_DeallocateClears ==
    (/\ hlast.op = "Deallocate" /\ hlast.result = "done"
     /\ hprev.op = "Allocate" /\ hprev.result = "TRUE" /\ hprev.h = hlast.h)
        => BitsCleared = IndexSectors(hlast.preHdr) \cup DataSectors(hlast.preHdr, sdisk)

\* C12: for the header a successful Allocate with num_bytes > 0 has filled
\* and every offset o with 0 <= o < num_bytes, ByteToSector(o) returns a
\* sector number in [0, NumSectors) whose bit is set in the free map.
C12_ByteToSectorValid ==
    (/\ bts.op = "ByteToSector"
     /\ hlast.op = "Allocate" /\ hlast.result = "TRUE" /\ hlast.h = bts.h)
        => /\ bts.sector \in DiskSectors
           /\ bts.sector \in freeMap

\* ByteToSector has answered for the last byte of a file of more than one
\* index sector, right after the Allocate of its header
C12_Witness ==
    /\ bts.op = "ByteToSector"
    /\ hlast.op = "Allocate" /\ hlast.result = "TRUE" /\ hlast.h = bts.h
    /\ hlast.size > SectorSize * SectorNumPerList
    /\ bts.offset = hlast.size - 1
    /\ bts.sector \in BitsSet

\* C13: after any sequence of Allocate and Deallocate calls on headers that
\* share one free map, every index and data sector a live header references
\* is set in the free map, no sector is referenced twice by one live header,
\* and no sector is referenced by two live headers.
C13_LiveSectors ==
    ~aborted =>
        /\ \A h \in live :
             LET refs == IndexSectors(hdr[h]) \cup DataSectors(hdr[h], sdisk)
             IN  /\ refs \subseteq freeMap
                 /\ Cardinality(refs) = hdr[h].numLists + hdr[h].numSectors
        /\ \A h1 \in live : \A h2 \in live \ {h1} :
             (IndexSectors(hdr[h1]) \cup DataSectors(hdr[h1], sdisk))
               \cap (IndexSectors(hdr[h2]) \cup DataSectors(hdr[h2], sdisk)) = {}

\* C20: for the header a successful Allocate has filled and offsets o1, o2 in
\* [0, num_bytes): ByteToSector(o1) is slot (o1 div S) mod L of index sector
\* dataSectorLists[(o1 div S) div L]; ByteToSector(o1) = ByteToSector(o2)
\* exactly when o1 div S = o2 div S; offsets 0 and S*L are resolved through
\* two different index sectors.
C20_ByteToSectorSlot ==
    (/\ bts.op = "ByteToSector"
     /\ hlast.op = "Allocate" /\ hlast.result = "TRUE" /\ hlast.h = bts.h)
        => LET hd == hdr[bts.h]
               k == bts.offset \div SectorSize
           IN  /\ bts.sector = sdisk[hd.dataSectorLists[k \div SectorNumPerList]]
                                    [k % SectorNumPerList]
               /\ \A o2 \in 0..(hd.numBytes - 1) :
                    (ByteToSector(hd, sdisk, o2) = bts.sector)
                        <=> (o2 \div SectorSize = k)
               /\ hd.numBytes > SectorSize * SectorNumPerList
                    => hd.dataSectorLists[0] # hd.dataSectorLists[1]

\* ByteToSector has answered for offset S*L, through the second index sector,
\* with another sector than it gives for offset 0
C20_Witness ==
    /\ bts.op = "ByteToSector"
    /\ hlast.op = "Allocate" /\ hlast.result = "TRUE" /\ hlast.h = bts.h
    /\ bts.offset = SectorSize * SectorNumPerList
    /\ bts.sector = sdisk[hdr[bts.h].dataSectorLists[1]][0]
    /\ bts.sector # ByteToSector(hdr[bts.h], sdisk, 0)

\* C21: Allocate never trips its own assertions: for every free map and file
\* size, once the pre-check has passed, every FindAndSet of the allocation
\* loop (for an index sector or a data sector) returns a sector >= 0, so the
\* call returns success and is never aborted with the free map changed.
C21_AllocateNoAbort ==
    (/\ hlast.op = "Allocate"
     /\ ~PreCheck(hlast.preMap, NeedSectors(hlast.size), NeedLists(hlast.size)))
        => /\ hlast.result = "TRUE"
           /\ ~aborted

====
